---- MODULE Spec2Model ----
(***************************************************************************)
(* Onboarding pipeline of the fitnessAI client: the registration page      *)
(* (AuthPage), the API client it calls (ApiService), the auth store and    *)
(* the profile transformation that builds the record sent to register.     *)
(*                                                                         *)
(* An async handler is modelled as one action per segment between two      *)
(* awaits: the segment that issues a remote call, and one continuation     *)
(* per outcome of that call.  Remote services are the environment: every   *)
(* pending call may succeed with any result of its result set or fail      *)
(* with any value of Thrown.                                               *)
(***************************************************************************)
EXTENDS Integers, Sequences, FiniteSets, TLC

(***************************************************************************)
(* Bounds                                                                  *)
(***************************************************************************)
\* number of times the registration form is submitted in one behaviour
MaxSubmits == 2
\* rejected submits of the psychological form in one behaviour
MaxInvalidSubmits == 2
\* length of the workoutPreferences lists that are encoded and decoded
MaxListLen == 2
\* failed calls of the auth hook explored
MaxSessionFailures == 2

(***************************************************************************)
(* Nullable values: null is the empty sequence, a value v is <<v>>.        *)
(***************************************************************************)
Null == <<>>
Some(v) == <<v>>
Val(o) == o[1]

(***************************************************************************)
(* Strings that the code takes apart character by character are           *)
(* sequences of one-character strings.                                     *)
(***************************************************************************)
Digits == {"0", "1", "2", "3", "4", "5", "6", "7", "8", "9"}

DigitVal(c) ==
    CASE c = "0" -> 0 [] c = "1" -> 1 [] c = "2" -> 2 [] c = "3" -> 3
      [] c = "4" -> 4 [] c = "5" -> 5 [] c = "6" -> 6 [] c = "7" -> 7
      [] c = "8" -> 8 [] c = "9" -> 9

Tok_1_2_hours == <<"1", "-", "2", "_", "h", "o", "u", "r", "s">>
Tok_3_4_hours == <<"3", "-", "4", "_", "h", "o", "u", "r", "s">>
Tok_5_6_hours == <<"5", "-", "6", "_", "h", "o", "u", "r", "s">>
Tok_7plus_hours == <<"7", "+", "_", "h", "o", "u", "r", "s">>

\* the values of the SelectItems of lifestyle.timeCommitment
TimeCommitmentOptions ==
    {Tok_1_2_hours, Tok_3_4_hours, Tok_5_6_hours, Tok_7plus_hours}

\* the values of the SelectItems of lifestyle.sleepQuality
SleepQualityOptions == {"poor", "fair", "good", "excellent"}

\* the values of the SelectItems of lifestyle.stressLevel
StressLevelOptions == {"low", "moderate", "high"}

(***************************************************************************)
(* JavaScript values and primitives used by the transformation.  A value   *)
(* is tagged with its type so that numbers, NaN, undefined and objects can *)
(* be told apart.                                                          *)
(***************************************************************************)
Num(n) == [t |-> "number", v |-> n]
NaN == [t |-> "NaN"]
Undefined == [t |-> "undefined"]
\* a property found on Object.prototype (a function, or the prototype)
Inherited(key) == [t |-> "object", name |-> key]

\* String.prototype.split(sep)[0]: the text before the first separator
RECURSIVE SplitFirst(_, _)
SplitFirst(s, sep) ==
    IF s = <<>> \/ Head(s) = sep THEN <<>>
    ELSE <<Head(s)>> \o SplitFirst(Tail(s), sep)

RECURSIVE DecimalValue(_, _)
DecimalValue(s, acc) ==
    IF s = <<>> THEN acc
    ELSE DecimalValue(Tail(s), acc * 10 + DigitVal(Head(s)))

AllDigits(s) == \A i \in 1..Len(s) : s[i] \in Digits

\* Number(string) over the alphabet of the tokens: the empty string is 0, an
\* optionally signed run of decimal digits is its value, anything else NaN.
\* The whole string has to be numeric: "3-4" and "7+" are NaN.
NumberOfString(s) ==
    IF s = <<>> THEN Num(0)
    ELSE IF AllDigits(s) THEN Num(DecimalValue(s, 0))
    ELSE IF Len(s) > 1 /\ Head(s) = "+" /\ AllDigits(Tail(s))
         THEN Num(DecimalValue(Tail(s), 0))
    ELSE IF Len(s) > 1 /\ Head(s) = "-" /\ AllDigits(Tail(s))
         THEN Num(0 - DecimalValue(Tail(s), 0))
    ELSE NaN

\* ToBoolean of the values the transformation applies || to
Truthy(v) == v # NaN /\ v # Num(0) /\ v # Undefined

\* a || b
OrElse(a, b) == IF Truthy(a) THEN a ELSE b

\* names every object literal inherits from Object.prototype
ObjectPrototypeKeys ==
    {"constructor", "toString", "valueOf", "hasOwnProperty", "isPrototypeOf",
     "propertyIsEnumerable", "toLocaleString", "__proto__"}

\* obj[key] for an object literal whose own properties are the function
\* `own`: the own property, else the inherited one, else undefined
Lookup(own, key) ==
    IF key \in DOMAIN own THEN Num(own[key])
    ELSE IF key \in ObjectPrototypeKeys THEN Inherited(key)
    ELSE Undefined

\* Array.prototype.join(sep)
RECURSIVE Join(_, _)
Join(list, sep) ==
    IF list = <<>> THEN ""
    ELSE IF Len(list) = 1 THEN list[1]
    ELSE list[1] \o sep \o Join(Tail(list), sep)

(***************************************************************************)
(* JSON.stringify over the values the transformation encodes: strings of   *)
(* printable characters, non-negative integers, arrays of strings and      *)
(* object literals.  The text is a string; SubSeq takes it apart.          *)
(***************************************************************************)
\* QuoteJSONString, the characters between the quotes: the quote and the
\* backslash are escaped, every other printable character stands for itself
\* a quote or a backslash is written after a backslash
JsonEscapeChar(c) ==
    IF c = "\"" THEN "\\\""
    ELSE IF c = "\\" THEN "\\\\"
    ELSE c

RECURSIVE JsonEscapeFrom(_, _)
\* the characters of s from position i on, escaped
JsonEscapeFrom(s, i) ==
    IF i > Len(s) THEN ""
    ELSE JsonEscapeChar(SubSeq(s, i, i)) \o JsonEscapeFrom(s, i + 1)

JsonEscape(s) == JsonEscapeFrom(s, 1)

\* a string written between quotes without escaping
JsonStringUnescaped(s) == "\"" \o s \o "\""

\* JSON.stringify of a string
JsonString(s) == "\"" \o JsonEscape(s) \o "\""

\* JSON.stringify of an integer
JsonNumber(n) == ToString(n)

\* JSON.stringify of an array of strings
JsonStringArray(list) ==
    "[" \o Join([i \in 1..Len(list) |-> JsonString(list[i])], ",") \o "]"

\* JSON.stringify of the object literal of lines 231-238: the members in
\* the order of the literal
JsonReadinessAssessment(readiness) ==
    "{" \o "\"narrative\":" \o JsonString(readiness.psychologicalNarrative)
        \o ",\"efficacyBeliefs\":" \o JsonString(readiness.efficacyBeliefs)
        \o ",\"motivations\":" \o JsonString(readiness.motivations)
        \o ",\"challenges\":" \o JsonString(readiness.challenges)
        \o ",\"readinessScore\":" \o JsonNumber(readiness.readinessScore)
        \o ",\"barriers\":" \o JsonStringArray(readiness.barriers)
        \o "}"

(***************************************************************************)
(* Profile transformation: the derived fields of completeUserData          *)
(***************************************************************************)
\* confidenceLevel taken from the score the user entered
ConfidenceLevelFromUser(assessment, analysis) ==
    Num(assessment.readinessAssessment.readinessScore)

\* confidenceLevel: analysis.motivationAnalysis.readinessScore
ConfidenceLevelOf(assessment, analysis) ==
    Num(analysis.motivationAnalysis.readinessScore)

\* Number(timeCommitment.split('_')[0]) || 0
TimeCommitmentOf(token) == OrElse(NumberOfString(SplitFirst(token, "_")), Num(0))

StressTable == [low |-> 1, moderate |-> 2, high |-> 3]
SleepTable == [poor |-> 1, fair |-> 2, good |-> 3, excellent |-> 4]

\* { low: 1, moderate: 2, high: 3 }[stressLevel] || 0
StressLevelOf(token) == OrElse(Lookup(StressTable, token), Num(0))

\* { poor: 1, fair: 2, good: 3, excellent: 4 }[sleepQuality] || 0
SleepQualityOf(token) == OrElse(Lookup(SleepTable, token), Num(0))

\* barriers.join(", ")
ObstaclesOf(barriers) == Join(barriers, ", ")

\* the object literal completeUserData: the credential spread first, then
\* the copied, defaulted and derived fields
CompleteUserData(reg, fitness, assessment, analysis) ==
    [username |-> reg.username,
     password |-> reg.password,
     gender |-> fitness.basicInfo.gender,
     fitnessGoal |-> fitness.fitnessProfile.fitnessGoal,
     experienceLevel |-> fitness.fitnessProfile.experienceLevel,
     currentActivityLevel |-> fitness.fitnessProfile.currentActivityLevel,
     pastAttempts |-> Num(0),
     workoutPreferences |->
        JsonStringArray(fitness.fitnessProfile.workoutPreferences),
     motivationFactors |->
        JsonStringArray(analysis.motivationAnalysis.underlyingMotivations),
     confidenceLevel |-> ConfidenceLevelOf(assessment, analysis),
     timeCommitment |-> TimeCommitmentOf(fitness.lifestyle.timeCommitment),
     obstacles |-> ObstaclesOf(assessment.readinessAssessment.barriers),
     stressLevel |-> StressLevelOf(fitness.lifestyle.stressLevel),
     sleepQuality |-> SleepQualityOf(fitness.lifestyle.sleepQuality),
     dietaryPreferences |-> "balanced",
     supplementPreferences |-> "none",
     occupationType |-> fitness.lifestyle.occupationType,
     workSchedule |-> fitness.lifestyle.workSchedule,
     readinessAssessment |->
        JsonReadinessAssessment(assessment.readinessAssessment)]

\* the object literal handed to api.analyzeAssessment
AnalyzeRequest(fitness, assessment) ==
    [psychologicalNarrative |->
        assessment.readinessAssessment.psychologicalNarrative,
     efficacyBeliefs |-> assessment.readinessAssessment.efficacyBeliefs,
     motivations |-> assessment.readinessAssessment.motivations,
     challenges |-> assessment.readinessAssessment.challenges,
     readinessScore |-> assessment.readinessAssessment.readinessScore,
     userData |->
        [age |-> fitness.basicInfo.age,
         experienceLevel |-> fitness.fitnessProfile.experienceLevel,
         currentActivityLevel |-> fitness.fitnessProfile.currentActivityLevel,
         sleepQuality |-> fitness.lifestyle.sleepQuality,
         stressLevel |-> fitness.lifestyle.stressLevel,
         workoutPreferences |-> fitness.fitnessProfile.workoutPreferences,
         timeCommitment |-> fitness.lifestyle.timeCommitment]]

(***************************************************************************)
(* Inputs and remote results                                               *)
(***************************************************************************)
\* what the registration form submits (RegisterFormData)
Credentials ==
    {[username |-> "alex", password |-> "pw-alex"],
     [username |-> "sam", password |-> "pw-sam"]}

FitnessAlex ==
    [basicInfo |-> [age |-> 30, gender |-> "male"],
     fitnessProfile |->
        [fitnessGoal |-> "muscle_gain", experienceLevel |-> "intermediate",
         currentActivityLevel |-> "moderately_active",
         workoutPreferences |-> <<"Strength Training">>],
     lifestyle |->
        [timeCommitment |-> Tok_3_4_hours, occupationType |-> "sedentary",
         workSchedule |-> "regular", sleepQuality |-> "good",
         stressLevel |-> "moderate"]]

FitnessSam ==
    [basicInfo |-> [age |-> 45, gender |-> "female"],
     fitnessProfile |->
        [fitnessGoal |-> "weight_loss", experienceLevel |-> "beginner",
         currentActivityLevel |-> "sedentary",
         workoutPreferences |-> <<"Cardio", "Yoga">>],
     lifestyle |->
        [timeCommitment |-> Tok_7plus_hours, occupationType |-> "active",
         workSchedule |-> "shift", sleepQuality |-> "poor",
         stressLevel |-> "high"]]

\* the FitnessAssessmentFormData values handed to onComplete
FitnessInputs == {FitnessAlex, FitnessSam}

PsychAlex ==
    [readinessAssessment |->
        [psychologicalNarrative |-> "ready to start",
         efficacyBeliefs |-> "I can do it", motivations |-> "health",
         challenges |-> "time", readinessScore |-> 7,
         barriers |-> <<"time management">>]]

PsychSam ==
    [readinessAssessment |->
        [psychologicalNarrative |-> "unsure",
         efficacyBeliefs |-> "maybe", motivations |-> "family",
         challenges |-> "energy", readinessScore |-> 3,
         barriers |-> <<"travel", "injury">>]]

\* the PsychologicalAssessmentData values handed to onComplete
PsychInputs == {PsychAlex, PsychSam}

AnalysisOf(score) ==
    [motivationAnalysis |->
        [underlyingMotivations |-> <<"health">>, readinessScore |-> score],
     milestones |-> "milestones",
     successPrediction |-> "successPrediction",
     timelinePrediction |-> "timelinePrediction"]

\* AnalysisResponse values the analysis service may return
AnalysisResponses == {AnalysisOf(72), AnalysisOf(40), AnalysisOf(7)}

\* WorkoutPlanResponse values the generation service may return
WorkoutPlanResponses == {[message |-> "plan", suggestions |-> <<"walk">>]}

\* What a failed request throws.  fetch rejects with a TypeError whose
\* message is "Failed to fetch"; another Error (a TypeError of another
\* wording, a SyntaxError of response.json()) carries its own message; a
\* non-success response throws the parsed body, which is no Error.
\* name is the name of the Error's class, "" for a value that is no Error.
ErrorOf(name, message) ==
    [t |-> "Error", name |-> name, message |-> message, error |-> ""]
ObjectWith(error) ==
    [t |-> "object", name |-> "", message |-> "", error |-> error]
NetworkError == ErrorOf("TypeError", "Failed to fetch")
OtherError == ErrorOf("TypeError", "Load failed")
RejectedWithError == ObjectWith("Username already exists")
RejectedNoError == ObjectWith("")
Thrown == {NetworkError, OtherError, RejectedWithError, RejectedNoError}

\* error instanceof Error
IsError(e) == e.t = "Error"

Stages == <<"analyze", "workout", "register">>

(***************************************************************************)
(* State                                                                   *)
(***************************************************************************)
VARIABLES
    \* AuthPage useState
    showAssessment, assessmentStep, initialRegData, fitnessData, results,
    isAnalyzing,
    \* useAuthStore
    user,
    \* checkUsername requests awaiting their response, and how many times
    \* the registration form has been submitted
    checks, submits,
    \* handlePsychologicalComplete: the await it is suspended at ("idle" when
    \* no invocation is running) and the values its closure holds
    pc, run,
    \* history: the remote calls of the current or last run with their
    \* outcomes, how that run ended, every toast emitted, and for each failed
    \* run the stage, the thrown value and the description the page reported
    calls, outcome, toasts, failureReports,
    \* history: the checkUsername request resolved last, with its answer,
    \* and the credential whose check opened the assessment flow last
    lastCheck, openedBy,
    \* input and output of the transformation applied on its own
    tin, tout,
    \* FitnessAssessment: useState step, the values and the errors of its form
    fStep, fValues, fErrors,
    \* PsychologicalAssessment: useState step and the values of its form
    pStep, pValues,
    \* PsychologicalAssessment: useState isSubmitting
    isSubmitting

pageVars ==
    <<showAssessment, assessmentStep, initialRegData, fitnessData, results,
      isAnalyzing>>
runVars == <<pc, run, calls, outcome, failureReports>>
formVars == <<fStep, fValues, fErrors, pStep, pValues, isSubmitting>>
vars ==
    <<showAssessment, assessmentStep, initialRegData, fitnessData, results,
      isAnalyzing, user, checks, submits, pc, run, calls, outcome, toasts,
      failureReports, lastCheck, openedBy, tin, tout, fStep, fValues, fErrors,
      pStep, pValues, isSubmitting>>

(***************************************************************************)
(* FitnessAssessment and PsychologicalAssessment: form values              *)
(***************************************************************************)
\* useForm defaultValues of FitnessAssessment
FitnessDefaultValues ==
    [basicInfo |->
        [age |-> Num(0), gender |-> "", heightFeet |-> Num(0),
         heightInches |-> Num(0), weight |-> ""],
     fitnessProfile |->
        [fitnessGoal |-> "", experienceLevel |-> "",
         currentActivityLevel |-> "", workoutPreferences |-> <<>>],
     lifestyle |->
        [timeCommitment |-> <<>>, occupationType |-> "", workSchedule |-> "",
         sleepQuality |-> "", stressLevel |-> ""]]

\* useForm defaultValues of PsychologicalAssessment
PsychDefaultValues ==
    [emotionalDrivers |-> [current |-> <<>>, desired |-> <<>>, impact |-> 5],
     personalVision |-> [oneYearGoal |-> "", visionSatisfaction |-> 5],
     readinessAssessment |->
        [efficacyBeliefs |-> "", motivations |-> "", challenges |-> "",
         readinessScore |-> 5, barriers |-> <<>>, supportSystem |-> <<>>,
         psychologicalNarrative |-> ""]]

\* both forms as they are when their component is first rendered
FormsAtMount ==
    /\ fStep = 1
    /\ fValues = FitnessDefaultValues
    /\ fErrors = {}
    /\ pStep = 1
    /\ pValues = PsychDefaultValues
    /\ isSubmitting = FALSE


NoRun ==
    [initialRegData |-> Null, fitnessData |-> Null, assessmentData |-> Null,
     analyzeRequest |-> Null, analysis |-> Null, workoutPlan |-> Null,
     completeUserData |-> Null]

Init ==
    /\ showAssessment = FALSE
    /\ assessmentStep = "fitness"
    /\ initialRegData = Null
    /\ fitnessData = Null
    /\ results = Null
    /\ isAnalyzing = FALSE
    /\ user = Null
    /\ checks = {}
    /\ submits = 0
    /\ pc = "idle"
    /\ run = NoRun
    /\ calls = <<>>
    /\ outcome = "none"
    /\ toasts = <<>>
    /\ failureReports = {}
    /\ lastCheck = Null
    /\ openedBy = Null
    /\ tin = Null
    /\ tout = Null
    /\ FormsAtMount

(***************************************************************************)
(* ApiService                                                              *)
(***************************************************************************)
\* ApiService.getErrorMessage
getErrorMessage(error) ==
    IF error.error # "" THEN error.error
    ELSE IF IsError(error) THEN error.message
    ELSE "An unexpected error occurred"

\* the toast ApiService.request emits in its catch before rethrowing
RequestToast(error) ==
    IF IsError(error) /\ error.message = "Failed to fetch"
    THEN [title |-> "Connection Error",
          description |-> "Unable to connect to the server. Please check your internet connection."]
    ELSE [title |-> "Error", description |-> getErrorMessage(error)]

\* the methods of ApiService that call request
Endpoints ==
    {"login", "register", "logout", "getCurrentUser", "checkUsername",
     "analyzeAssessment", "generateWorkout"}

\* what the body of a response holds: for a JSON body whether it parses and
\* the value of its member "error" ("" if it has none), for a text body
\* the text
ResponseBodies ==
    {[wellFormed |-> w, content |-> c] :
        w \in BOOLEAN,
        c \in {"", "Username already exists", "Internal Server Error"}}

\* how fetch settles: it rejects (the service was not reached) or resolves
\* with a response, whatever its status
FetchOutcomes ==
    {[kind |-> "rejected", error |-> e] : e \in {NetworkError, OtherError}}
    \cup {[kind |-> "response", ok |-> ok, isJson |-> j, body |-> b] :
            ok \in BOOLEAN, j \in BOOLEAN, b \in ResponseBodies}

Returned(data) == [kind |-> "returned", value |-> data]
Threw(error) == [kind |-> "thrown", value |-> error]

\* handleResponse without the test of response.ok
HandleResponseIgnoresStatus(response) ==
    IF response.isJson /\ ~response.body.wellFormed
    THEN Threw(ErrorOf("SyntaxError", "Unexpected end of JSON input"))
    ELSE Returned(response.body.content)

\* ApiService.handleResponse: response.json() throws a SyntaxError on a body
\* that does not parse; a response that is not ok throws the parsed body,
\* or { error: text, code: 'UNKNOWN_ERROR' } for a text body
handleResponse(response) ==
    IF response.isJson /\ ~response.body.wellFormed
    THEN Threw(ErrorOf("SyntaxError", "Unexpected end of JSON input"))
    ELSE IF ~response.ok
    THEN Threw(ObjectWith(response.body.content))
    ELSE Returned(response.body.content)

\* ApiService.request: the result of the call and the toasts it emits
request(settled) ==
    LET result == IF settled.kind = "rejected" THEN Threw(settled.error)
                  ELSE handleResponse(settled)
    IN [result |-> result,
        toasts |-> IF result.kind = "thrown"
                   THEN <<RequestToast(result.value)>> ELSE <<>>]

(***************************************************************************)
(* AuthPage                                                                *)
(***************************************************************************)
\* registerMutation.isPending
RegisterPending == pc = "register"

\* the registration form is on screen and its submit button is enabled
RegisterFormEnabled == user = Null /\ ~showAssessment /\ ~RegisterPending

\* handleInitialRegister up to its await: api.checkUsername is sent
HandleInitialRegister(data) ==
    /\ RegisterFormEnabled
    /\ submits < MaxSubmits
    /\ submits' = submits + 1
    /\ checks' = checks \cup {[id |-> submits + 1, data |-> data]}
    /\ UNCHANGED <<pageVars, user, runVars, toasts, lastCheck, openedBy, tin, tout, formVars>>

\* the unavailable branch without its return: the flow is opened as well
UsernameTakenFallsThrough(c) ==
    /\ toasts' = Append(toasts, [title |-> "Registration Error",
                                 description |-> "Username already exists"])
    /\ initialRegData' = Some(c.data)
    /\ showAssessment' = TRUE
    /\ openedBy' = IF showAssessment THEN openedBy ELSE Some(c.data)
    /\ UNCHANGED <<assessmentStep, fitnessData, results, isAnalyzing>>

\* handleInitialRegister, response.available is false
UsernameTaken(c) ==
    /\ toasts' = Append(toasts, [title |-> "Registration Error",
                                 description |-> "Username already exists"])
    /\ UNCHANGED <<pageVars, openedBy>>

\* handleInitialRegister, response.available is true
UsernameAvailable(c) ==
    /\ initialRegData' = Some(c.data)
    /\ showAssessment' = TRUE
    /\ openedBy' = IF showAssessment THEN openedBy ELSE Some(c.data)
    /\ UNCHANGED <<assessmentStep, fitnessData, results, isAnalyzing, toasts>>

\* handleInitialRegister after the await, the request having succeeded.
\* Once a user is stored the page has been left (window.location.href), and
\* responses that arrive later find no page.
CheckUsernameReturns(c, available) ==
    /\ c \in checks
    /\ user = Null
    /\ checks' = checks \ {c}
    /\ IF available THEN UsernameAvailable(c) ELSE UsernameTaken(c)
    /\ lastCheck' = Some([id |-> c.id, data |-> c.data,
                          answer |-> IF available THEN "available" ELSE "taken"])
    /\ UNCHANGED <<user, submits, runVars, tin, tout, formVars>>

\* handleInitialRegister, catch: the request failed
CheckUsernameFails(c, error) ==
    /\ c \in checks
    /\ user = Null
    /\ checks' = checks \ {c}
    /\ toasts' = toasts \o
          <<RequestToast(error),
            [title |-> "Error",
             description |-> "Failed to check username availability"]>>
    /\ lastCheck' = Some([id |-> c.id, data |-> c.data, answer |-> "failed"])
    /\ UNCHANGED <<pageVars, user, submits, runVars, openedBy, tin, tout,
                   formVars>>

\* handleFitnessComplete, called by the FitnessAssessment the page renders
HandleFitnessComplete(data) ==
    /\ user = Null
    /\ showAssessment
    /\ assessmentStep = "fitness"
    /\ fitnessData' = Some(data)
    /\ assessmentStep' = "psychological"
    /\ UNCHANGED <<showAssessment, initialRegData, results, isAnalyzing, user,
                   checks, submits, runVars, toasts, lastCheck, openedBy, tin, tout, formVars>>

\* the request handlePsychologicalComplete is suspended at gets a new outcome
Resolve(outcomeOfCall) ==
    [calls EXCEPT ![Len(calls)] = [stage |-> pc, outcome |-> outcomeOfCall]]

\* a request of the run is sent
Send(stage) == [stage |-> stage, outcome |-> "pending"]

\* handlePsychologicalComplete without its early return
HandlePsychologicalCompleteUnguarded(assessmentData) ==
    /\ user = Null
    /\ showAssessment
    /\ assessmentStep = "psychological"
    /\ pc = "idle"
    /\ isAnalyzing' = TRUE
    /\ assessmentStep' = "analyzing"
    /\ pc' = "analyze"
    /\ run' = [NoRun EXCEPT !.initialRegData = initialRegData,
                            !.fitnessData = fitnessData,
                            !.assessmentData = Some(assessmentData)]
    /\ calls' = <<Send("analyze")>>
    /\ outcome' = "running"
    /\ UNCHANGED <<showAssessment, initialRegData, fitnessData, results,
                   failureReports>>
    /\ UNCHANGED <<user, checks, submits, toasts, lastCheck, openedBy, tin,
                   tout, formVars>>

\* handlePsychologicalComplete up to its first await; called by the
\* PsychologicalAssessment the page renders.  That view is rendered only at
\* step "psychological", where no earlier invocation is still suspended.
HandlePsychologicalComplete(assessmentData) ==
    /\ user = Null
    /\ showAssessment
    /\ assessmentStep = "psychological"
    /\ pc = "idle"
    /\ IF initialRegData = Null \/ fitnessData = Null
       THEN UNCHANGED <<pageVars, runVars>>
       ELSE /\ isAnalyzing' = TRUE
            /\ assessmentStep' = "analyzing"
            /\ pc' = "analyze"
            /\ run' = [NoRun EXCEPT
                         !.initialRegData = initialRegData,
                         !.fitnessData = fitnessData,
                         !.assessmentData = Some(assessmentData),
                         !.analyzeRequest =
                             Some(AnalyzeRequest(Val(fitnessData),
                                                 assessmentData))]
            /\ calls' = <<Send("analyze")>>
            /\ outcome' = "running"
            /\ UNCHANGED <<showAssessment, initialRegData, fitnessData,
                           results, failureReports>>
    /\ UNCHANGED <<user, checks, submits, toasts, lastCheck, openedBy, tin, tout, formVars>>

\* api.analyzeAssessment resolved: api.generateWorkout is sent
AnalyzeSucceeds(analysis) ==
    /\ pc = "analyze"
    /\ run' = [run EXCEPT !.analysis = Some(analysis)]
    /\ pc' = "workout"
    /\ calls' = Append(Resolve("ok"), Send("workout"))
    /\ UNCHANGED <<pageVars, user, checks, submits, outcome, toasts,
                   failureReports, lastCheck, openedBy, tin, tout, formVars>>

\* the object handed to setResults
ComprehensiveResults(analysis, workoutPlan) ==
    [motivationAnalysis |-> analysis.motivationAnalysis,
     milestones |-> analysis.milestones,
     successPrediction |-> analysis.successPrediction,
     timelinePrediction |-> analysis.timelinePrediction,
     workoutPlan |-> workoutPlan]

\* api.generateWorkout resolved: the results are stored and shown, the
\* record is built and registerMutation.mutateAsync is called
WorkoutSucceeds(workoutPlan) ==
    /\ pc = "workout"
    /\ results' = Some(ComprehensiveResults(Val(run.analysis), workoutPlan))
    /\ assessmentStep' = "results"
    /\ run' = [run EXCEPT
                 !.workoutPlan = Some(workoutPlan),
                 !.completeUserData =
                     Some(CompleteUserData(Val(run.initialRegData),
                                           Val(run.fitnessData),
                                           Val(run.assessmentData),
                                           Val(run.analysis)))]
    /\ pc' = "register"
    /\ calls' = Append(Resolve("ok"), Send("register"))
    /\ UNCHANGED <<showAssessment, initialRegData, fitnessData, isAnalyzing,
                   user, checks, submits, outcome, toasts, failureReports,
                   lastCheck, openedBy, tin, tout, formVars>>

\* the stored record the register endpoint answers with
StoredUser(record) == [id |-> 1, username |-> record.username]

\* registerMutation resolved: onSuccess stores the user, then the handler
\* emits its toast and runs its finally
RegisterSucceeds ==
    /\ pc = "register"
    /\ user' = Some(StoredUser(Val(run.completeUserData)))
    /\ toasts' = Append(toasts,
          [title |-> "Success!",
           description |-> "Your account has been created. Welcome to your fitness journey!"])
    /\ isAnalyzing' = FALSE
    /\ pc' = "idle"
    /\ run' = NoRun
    /\ calls' = Resolve("ok")
    /\ outcome' = "complete"
    /\ UNCHANGED <<showAssessment, assessmentStep, initialRegData, fitnessData,
                   results, checks, submits, failureReports, lastCheck, openedBy, tin, tout, formVars>>

\* the catch block reporting what ApiService.getErrorMessage extracts
FailureDescriptionFromApi(error) == getErrorMessage(error)

\* the description of the toast of the catch block
FailureDescription(error) ==
    IF IsError(error) THEN error.message ELSE "Failed to complete registration"

\* the catch block without setFitnessData(null)
RollbackKeepsFitness ==
    /\ showAssessment' = FALSE
    /\ initialRegData' = Null
    /\ UNCHANGED fitnessData
    /\ assessmentStep' = "fitness"

\* the state setters of the catch block
Rollback ==
    /\ showAssessment' = FALSE
    /\ initialRegData' = Null
    /\ fitnessData' = Null
    /\ assessmentStep' = "fitness"

\* a failed request swallowed: the next request of the chain is sent
AfterFailureSendsNext ==
    /\ pc' = IF pc = "analyze" THEN "workout" ELSE "register"
    /\ calls' = Append(Resolve("failed"),
                       Send(IF pc = "analyze" THEN "workout" ELSE "register"))

\* a failed request sent again
AfterFailureRetries ==
    /\ pc' = pc
    /\ calls' = Append(Resolve("failed"), Send(pc))

\* how the run goes on when the request it awaits has failed: the handler
\* is left through its catch, no further request is sent
AfterFailure ==
    /\ pc' = "idle"
    /\ calls' = Resolve("failed")

\* the catch block without the finally block: isAnalyzing stays true
StageFailsWithoutFinally(error) ==
    /\ pc \in {"analyze", "workout", "register"}
    /\ toasts' = toasts \o
          <<RequestToast(error),
            [title |-> "Error", description |-> FailureDescription(error)]>>
    /\ Rollback
    /\ AfterFailure
    /\ run' = NoRun
    /\ outcome' = "failed"
    /\ failureReports' = failureReports \cup
          {[stage |-> pc, thrown |-> error,
            reason |-> toasts'[Len(toasts')].description]}
    /\ UNCHANGED <<results, isAnalyzing, user, checks, submits, lastCheck,
                   openedBy, tin, tout, formVars>>

\* a request of the run rejected: ApiService.request emits its toast and
\* rethrows, the handler runs its catch and its finally
StageFails(error) ==
    /\ pc \in {"analyze", "workout", "register"}
    /\ toasts' = toasts \o
          <<RequestToast(error),
            [title |-> "Error", description |-> FailureDescription(error)]>>
    /\ Rollback
    /\ isAnalyzing' = FALSE
    /\ AfterFailure
    /\ run' = NoRun
    /\ outcome' = "failed"
    /\ failureReports' = failureReports \cup
          {[stage |-> pc, thrown |-> error,
            reason |-> toasts'[Len(toasts')].description]}
    /\ UNCHANGED <<results, user, checks, submits, lastCheck, openedBy, tin, tout, formVars>>

\* onClick of "Continue to Dashboard" in the results view
ContinueToDashboard ==
    /\ user = Null
    /\ showAssessment
    /\ assessmentStep = "results"
    /\ results # Null
    /\ results' = Null
    /\ showAssessment' = FALSE
    /\ UNCHANGED <<assessmentStep, initialRegData, fitnessData, isAnalyzing,
                   user, checks, submits, runVars, toasts, lastCheck, openedBy, tin, tout, formVars>>

Next ==
    \/ \E data \in Credentials : HandleInitialRegister(data)
    \/ \E c \in checks, available \in BOOLEAN : CheckUsernameReturns(c, available)
    \/ \E c \in checks, error \in Thrown : CheckUsernameFails(c, error)
    \/ \E data \in FitnessInputs : HandleFitnessComplete(data)
    \/ \E data \in PsychInputs : HandlePsychologicalComplete(data)
    \/ \E analysis \in AnalysisResponses : AnalyzeSucceeds(analysis)
    \/ \E plan \in WorkoutPlanResponses : WorkoutSucceeds(plan)
    \/ RegisterSucceeds
    \/ \E error \in Thrown : StageFails(error)
    \/ ContinueToDashboard

Spec == Init /\ [][Next]_vars

\* the request handlePsychologicalComplete awaits is answered
RunResponse ==
    \/ \E analysis \in AnalysisResponses : AnalyzeSucceeds(analysis)
    \/ \E plan \in WorkoutPlanResponses : WorkoutSucceeds(plan)
    \/ RegisterSucceeds
    \/ \E error \in Thrown : StageFails(error)

\* the page under the assumption that every request of a run is answered
SpecLive == Spec /\ WF_vars(RunResponse)

(***************************************************************************)
(* The transformation on its own: the derived fields computed for every    *)
(* token of the sets below, not only those the page's forms offer.         *)
(***************************************************************************)
Tok_hours == <<"h", "o", "u", "r", "s">>
Tok_flexible_hours == <<"f", "l", "e", "x", "_", "h", "o", "u", "r", "s">>
Tok_10_hours == <<"1", "0", "_", "h", "o", "u", "r", "s">>

\* strings fitnessSchema accepts for lifestyle.timeCommitment (min(1))
TimeCommitmentTokens ==
    TimeCommitmentOptions \cup {Tok_hours, Tok_flexible_hours, Tok_10_hours}

\* strings fitnessSchema accepts for lifestyle.stressLevel (min(1))
StressLevelTokens == StressLevelOptions \cup {"unknown", "LOW", "constructor"}

\* strings fitnessSchema accepts for lifestyle.sleepQuality (min(1))
SleepQualityTokens == SleepQualityOptions \cup {"unknown", "great", "toString"}

FitnessWith(time, sleep, stress) ==
    [FitnessAlex EXCEPT !.lifestyle.timeCommitment = time,
                        !.lifestyle.sleepQuality = sleep,
                        !.lifestyle.stressLevel = stress]

TransformInputs ==
    {[reg |-> [username |-> "alex", password |-> "pw-alex"],
      fitness |-> FitnessWith(time, sleep, stress),
      assessment |-> PsychAlex,
      analysis |-> AnalysisOf(72)] :
        time \in TimeCommitmentTokens, sleep \in SleepQualityTokens,
        stress \in StressLevelTokens}

TransformInit ==
    /\ showAssessment = FALSE
    /\ assessmentStep = "fitness"
    /\ initialRegData = Null
    /\ fitnessData = Null
    /\ results = Null
    /\ isAnalyzing = FALSE
    /\ user = Null
    /\ checks = {}
    /\ submits = 0
    /\ pc = "idle"
    /\ run = NoRun
    /\ calls = <<>>
    /\ outcome = "none"
    /\ toasts = <<>>
    /\ failureReports = {}
    /\ lastCheck = Null
    /\ openedBy = Null
    /\ tin \in {Some(i) : i \in TransformInputs}
    /\ tout = Null
    /\ FormsAtMount

\* completeUserData is built from the input
Transform ==
    /\ tin # Null
    /\ tout = Null
    /\ tout' = Some(CompleteUserData(Val(tin).reg, Val(tin).fitness,
                                     Val(tin).assessment, Val(tin).analysis))
    /\ UNCHANGED <<pageVars, user, checks, submits, runVars, toasts,
                   lastCheck, openedBy, tin, formVars>>

TransformNext == Transform

SpecTransform == TransformInit /\ [][TransformNext]_vars

(***************************************************************************)
(* ApiService.request on its own: every method, every way fetch settles.   *)
(***************************************************************************)
RequestInit ==
    /\ showAssessment = FALSE
    /\ assessmentStep = "fitness"
    /\ initialRegData = Null
    /\ fitnessData = Null
    /\ results = Null
    /\ isAnalyzing = FALSE
    /\ user = Null
    /\ checks = {}
    /\ submits = 0
    /\ pc = "idle"
    /\ run = NoRun
    /\ calls = <<>>
    /\ outcome = "none"
    /\ toasts = <<>>
    /\ failureReports = {}
    /\ lastCheck = Null
    /\ openedBy = Null
    /\ tin \in {Some([endpoint |-> e, settled |-> f]) :
                    e \in Endpoints, f \in FetchOutcomes}
    /\ tout = Null
    /\ FormsAtMount

\* the call made by the method settles
RequestSettles ==
    /\ tin # Null
    /\ tout = Null
    /\ tout' = Some(request(Val(tin).settled).result)
    /\ toasts' = toasts \o request(Val(tin).settled).toasts
    /\ UNCHANGED <<pageVars, user, checks, submits, runVars, lastCheck,
                   openedBy, tin, formVars>>

RequestNext == RequestSettles

SpecRequest == RequestInit /\ [][RequestNext]_vars

(***************************************************************************)
(* The encoding of workoutPreferences on its own, followed by its          *)
(* decoding.  The decoder is the reader of the record's string: JSON.parse *)
(* restricted to arrays of strings, the inverse the specification asks     *)
(* of the array encoding.                                                  *)
(***************************************************************************)
\* reads a string literal from position i, just after its opening quote
RECURSIVE JsonReadString(_, _, _)
JsonReadString(text, i, value) ==
    IF i > Len(text) THEN Null
    ELSE LET c == SubSeq(text, i, i)
         IN IF c = "\"" THEN Some([value |-> value, next |-> i + 1])
            ELSE IF c = "\\"
            THEN IF i + 1 > Len(text) THEN Null
                 ELSE JsonReadString(text, i + 2,
                                     value \o SubSeq(text, i + 1, i + 1))
            ELSE JsonReadString(text, i + 1, value \o c)

\* reads the elements of an array from position i, where one starts
RECURSIVE JsonReadElements(_, _, _)
JsonReadElements(text, i, list) ==
    IF i > Len(text) \/ SubSeq(text, i, i) # "\"" THEN Null
    ELSE LET r == JsonReadString(text, i + 1, "")
         IN IF r = Null THEN Null
            ELSE LET next == Val(r).next
                     elements == Append(list, Val(r).value)
                 IN IF next > Len(text) THEN Null
                    ELSE IF SubSeq(text, next, next) = ","
                    THEN JsonReadElements(text, next + 1, elements)
                    ELSE IF SubSeq(text, next, next) = "]" /\ next = Len(text)
                    THEN Some(elements)
                    ELSE Null

\* the decoded list, or Null where the text is no array of strings
JsonParseStringArray(text) ==
    IF Len(text) < 2 \/ SubSeq(text, 1, 1) # "[" THEN Null
    ELSE IF text = "[]" THEN Some(<<>>)
    ELSE JsonReadElements(text, 2, <<>>)

\* entries of workoutPreferences: plain ones, two that differ by a trailing
\* blank, and entries holding a comma, quotes and a backslash
PreferenceStrings ==
    {"Yoga", "Yoga ", "Cardio", "HIIT,Cardio", "say \"go\"", "a\\b"}

\* the non-empty lists fitnessSchema accepts, up to MaxListLen entries
PreferenceLists ==
    UNION {[1..n -> PreferenceStrings] : n \in 1..MaxListLen}

EncodeInit ==
    /\ showAssessment = FALSE
    /\ assessmentStep = "fitness"
    /\ initialRegData = Null
    /\ fitnessData = Null
    /\ results = Null
    /\ isAnalyzing = FALSE
    /\ user = Null
    /\ checks = {}
    /\ submits = 0
    /\ pc = "idle"
    /\ run = NoRun
    /\ calls = <<>>
    /\ outcome = "none"
    /\ toasts = <<>>
    /\ failureReports = {}
    /\ lastCheck = Null
    /\ openedBy = Null
    /\ tin \in {Some(list) : list \in PreferenceLists}
    /\ tout = Null
    /\ FormsAtMount

\* workoutPreferences: JSON.stringify(fitnessData.fitnessProfile.workoutPreferences)
EncodeWorkoutPreferences ==
    /\ tin # Null
    /\ tout = Null
    /\ tout' = Some([encoded |-> JsonStringArray(Val(tin)), decoded |-> Null])
    /\ UNCHANGED <<pageVars, user, checks, submits, runVars, toasts,
                   lastCheck, openedBy, tin, formVars>>

\* the record's string is read back into a list
DecodeWorkoutPreferences ==
    /\ tout # Null
    /\ Val(tout).decoded = Null
    /\ tout' = Some([Val(tout) EXCEPT
                        !.decoded = Some(JsonParseStringArray(Val(tout).encoded))])
    /\ UNCHANGED <<pageVars, user, checks, submits, runVars, toasts,
                   lastCheck, openedBy, tin, formVars>>

EncodeNext == EncodeWorkoutPreferences \/ DecodeWorkoutPreferences

SpecEncode == EncodeInit /\ [][EncodeNext]_vars

(***************************************************************************)
(* handlePsychologicalComplete on its own: the handler called with every   *)
(* combination of a stored or a missing credential and FitnessInput.       *)
(***************************************************************************)
PsychCompleteInit ==
    /\ showAssessment = TRUE
    /\ assessmentStep = "psychological"
    /\ initialRegData \in {Null} \cup {Some(c) : c \in Credentials}
    /\ fitnessData \in {Null} \cup {Some(f) : f \in FitnessInputs}
    /\ results = Null
    /\ isAnalyzing = FALSE
    /\ user = Null
    /\ checks = {}
    /\ submits = 0
    /\ pc = "idle"
    /\ run = NoRun
    /\ calls = <<>>
    /\ outcome = "none"
    /\ toasts = <<>>
    /\ failureReports = {}
    /\ lastCheck = Null
    /\ openedBy = initialRegData
    /\ tin = Null
    /\ tout = Null
    /\ FormsAtMount

PsychCompleteNext ==
    \/ \E data \in PsychInputs : HandlePsychologicalComplete(data)
    \/ \E analysis \in AnalysisResponses : AnalyzeSucceeds(analysis)
    \/ \E plan \in WorkoutPlanResponses : WorkoutSucceeds(plan)
    \/ RegisterSucceeds
    \/ \E error \in Thrown : StageFails(error)
    \/ ContinueToDashboard

SpecPsychComplete == PsychCompleteInit /\ [][PsychCompleteNext]_vars

(***************************************************************************)
(* FitnessAssessment                                                       *)
(***************************************************************************)
\* z.coerce.number().min(lo).max(hi) on the value of a number input, which
\* is a number or, for an empty input, NaN (valueAsNumber)
CoercedNumberIn(v, lo, hi) == v.t = "number" /\ v.v >= lo /\ v.v <= hi

\* z.string().min(n), z.array(z.string()).min(n)
MinLength(s, n) == Len(s) >= n

\* basicInfo.age accepted from 12
AgeSchemaFrom12(v) == CoercedNumberIn(v, 12, 120)

\* fitnessSchema, basicInfo.age
AgeSchema(v) == CoercedNumberIn(v, 13, 120)

FitnessFieldNames ==
    {"basicInfo.age", "basicInfo.gender", "basicInfo.heightFeet",
     "basicInfo.heightInches", "basicInfo.weight",
     "fitnessProfile.fitnessGoal", "fitnessProfile.experienceLevel",
     "fitnessProfile.currentActivityLevel",
     "fitnessProfile.workoutPreferences",
     "lifestyle.timeCommitment", "lifestyle.occupationType",
     "lifestyle.workSchedule", "lifestyle.sleepQuality",
     "lifestyle.stressLevel"}

\* fitnessSchema, field by field
FitnessFieldValid(name, v) ==
    CASE name = "basicInfo.age" -> AgeSchema(v.basicInfo.age)
      [] name = "basicInfo.gender" -> MinLength(v.basicInfo.gender, 1)
      [] name = "basicInfo.heightFeet" ->
            CoercedNumberIn(v.basicInfo.heightFeet, 4, 8)
      [] name = "basicInfo.heightInches" ->
            CoercedNumberIn(v.basicInfo.heightInches, 0, 11)
      [] name = "basicInfo.weight" -> MinLength(v.basicInfo.weight, 2)
      [] name = "fitnessProfile.fitnessGoal" ->
            MinLength(v.fitnessProfile.fitnessGoal, 1)
      [] name = "fitnessProfile.experienceLevel" ->
            MinLength(v.fitnessProfile.experienceLevel, 1)
      [] name = "fitnessProfile.currentActivityLevel" ->
            MinLength(v.fitnessProfile.currentActivityLevel, 1)
      [] name = "fitnessProfile.workoutPreferences" ->
            MinLength(v.fitnessProfile.workoutPreferences, 1)
      [] name = "lifestyle.timeCommitment" ->
            MinLength(v.lifestyle.timeCommitment, 1)
      [] name = "lifestyle.occupationType" ->
            MinLength(v.lifestyle.occupationType, 1)
      [] name = "lifestyle.workSchedule" ->
            MinLength(v.lifestyle.workSchedule, 1)
      [] name = "lifestyle.sleepQuality" ->
            MinLength(v.lifestyle.sleepQuality, 1)
      [] name = "lifestyle.stressLevel" ->
            MinLength(v.lifestyle.stressLevel, 1)

\* the errors zodResolver(fitnessSchema) reports: the resolver of
\* form.handleSubmit validates every field of the schema, whatever the step
FitnessSchemaErrors(v) ==
    {name \in FitnessFieldNames : ~FitnessFieldValid(name, v)}

\* the parsed data handleSubmit hands to onSubmit: numbers coerced
FitnessData(v) ==
    [v EXCEPT !.basicInfo.age = v.basicInfo.age.v,
              !.basicInfo.heightFeet = v.basicInfo.heightFeet.v,
              !.basicInfo.heightInches = v.basicInfo.heightInches.v]

BasicInfoValid ==
    [age |-> Num(30), gender |-> "male", heightFeet |-> Num(5),
     heightInches |-> Num(10), weight |-> "180"]

\* values of the controls of step 1
BasicInfoValues ==
    {FitnessDefaultValues.basicInfo, BasicInfoValid,
     [BasicInfoValid EXCEPT !.age = Num(12)],
     [BasicInfoValid EXCEPT !.age = NaN],
     [BasicInfoValid EXCEPT !.heightFeet = Num(9)],
     [BasicInfoValid EXCEPT !.weight = "9"]}

\* values of fitnessProfile: the three selects of step 2 left empty or
\* chosen, and workoutPreferences, for which the form renders no control
FitnessProfileValues ==
    {FitnessDefaultValues.fitnessProfile,
     [FitnessAlex.fitnessProfile EXCEPT !.workoutPreferences = <<>>],
     FitnessAlex.fitnessProfile}

\* values of the selects of step 3
LifestyleValues == {FitnessDefaultValues.lifestyle, FitnessAlex.lifestyle}

\* values of the form's data type the handlers are applied to
FitnessFormValues ==
    {[basicInfo |-> b, fitnessProfile |-> f, lifestyle |-> l] :
        b \in BasicInfoValues, f \in FitnessProfileValues,
        l \in LifestyleValues}

nonFormVars ==
    <<pageVars, user, checks, submits, runVars, toasts, lastCheck, openedBy,
      tin, tout>>

\* the page renders <FitnessAssessment>
FitnessMounted == user = Null /\ showAssessment /\ assessmentStep = "fitness"

\* a submit whose validation guards the last step only
FitnessSubmitUnvalidated ==
    /\ FitnessMounted
    /\ IF fStep < 3
       THEN /\ fStep' = fStep + 1
            /\ fErrors' = {}
            /\ UNCHANGED <<nonFormVars, fValues, pStep, pValues, isSubmitting>>
       ELSE IF FitnessSchemaErrors(fValues) # {}
       THEN /\ fErrors' = FitnessSchemaErrors(fValues)
            /\ UNCHANGED <<nonFormVars, fStep, fValues, pStep, pValues, isSubmitting>>
       ELSE HandleFitnessComplete(FitnessData(fValues))

\* submit of the form: form.handleSubmit(onSubmit) validates and, when the
\* values are valid, calls onSubmit with the parsed data
FitnessSubmit ==
    /\ FitnessMounted
    /\ IF FitnessSchemaErrors(fValues) # {}
       THEN /\ fErrors' = FitnessSchemaErrors(fValues)
            /\ UNCHANGED <<nonFormVars, fStep, fValues, pStep, pValues, isSubmitting>>
       ELSE IF fStep < 3
       THEN /\ fStep' = fStep + 1
            /\ fErrors' = {}
            /\ UNCHANGED <<nonFormVars, fValues, pStep, pValues, isSubmitting>>
       ELSE HandleFitnessComplete(FitnessData(fValues))

\* onClick of "Previous", rendered when step > 1
FitnessPrevious ==
    /\ FitnessMounted
    /\ fStep > 1
    /\ fStep' = fStep - 1
    /\ UNCHANGED <<nonFormVars, fValues, fErrors, pStep, pValues,
                   isSubmitting>>

\* the controls the form renders at a step, as <<group, field>>: step 2
\* renders no control for fitnessProfile.workoutPreferences
FitnessControls(step) ==
    CASE step = 1 -> {<<"basicInfo", f>> :
                        f \in {"age", "gender", "heightFeet", "heightInches",
                               "weight"}}
      [] step = 2 -> {<<"fitnessProfile", f>> :
                        f \in {"fitnessGoal", "experienceLevel",
                               "currentActivityLevel"}}
      [] step = 3 -> {<<"lifestyle", f>> :
                        f \in {"timeCommitment", "occupationType",
                               "workSchedule", "sleepQuality",
                               "stressLevel"}}

\* a value the schema accepts, for every control of the form
FitnessValidEntries ==
    [basicInfo |-> BasicInfoValid,
     fitnessProfile |-> FitnessAlex.fitnessProfile,
     lifestyle |-> FitnessAlex.lifestyle]

\* field.onChange(value) with the valid entry for a control of the step on
\* screen; a field in error is validated again on change, which clears
\* its error
FitnessEdit(group, field) ==
    /\ FitnessMounted
    /\ <<group, field>> \in FitnessControls(fStep)
    /\ fValues' = [fValues EXCEPT
                      ![group][field] = FitnessValidEntries[group][field]]
    /\ fErrors' = fErrors \ {group \o "." \o field}
    /\ UNCHANGED <<nonFormVars, fStep, pStep, pValues, isSubmitting>>

(***************************************************************************)
(* PsychologicalAssessment                                                 *)
(***************************************************************************)
\* validateCurrentStep with personalVision.oneYearGoal left out of step 2
PsychStepFieldsWithoutGoal(step) ==
    CASE step = 1 -> {"emotionalDrivers.current", "emotionalDrivers.desired",
                      "emotionalDrivers.impact"}
      [] step = 2 -> {"personalVision.visionSatisfaction",
                      "readinessAssessment.efficacyBeliefs",
                      "readinessAssessment.motivations",
                      "readinessAssessment.challenges"}
      [] step = 3 -> {"readinessAssessment.readinessScore",
                      "readinessAssessment.barriers",
                      "readinessAssessment.supportSystem",
                      "readinessAssessment.psychologicalNarrative"}

\* the names validateCurrentStep passes to form.trigger
PsychStepFields(step) ==
    CASE step = 1 -> {"emotionalDrivers.current", "emotionalDrivers.desired",
                      "emotionalDrivers.impact"}
      [] step = 2 -> {"personalVision.oneYearGoal",
                      "personalVision.visionSatisfaction",
                      "readinessAssessment.efficacyBeliefs",
                      "readinessAssessment.motivations",
                      "readinessAssessment.challenges"}
      [] step = 3 -> {"readinessAssessment.readinessScore",
                      "readinessAssessment.barriers",
                      "readinessAssessment.supportSystem",
                      "readinessAssessment.psychologicalNarrative"}

\* z.number().min(1).max(10)
ScoreValid(n) == n >= 1 /\ n <= 10

\* psychologicalAssessmentSchema, field by field
PsychFieldValid(name, v) ==
    CASE name = "emotionalDrivers.current" ->
            MinLength(v.emotionalDrivers.current, 1)
      [] name = "emotionalDrivers.desired" ->
            MinLength(v.emotionalDrivers.desired, 1)
      [] name = "emotionalDrivers.impact" ->
            ScoreValid(v.emotionalDrivers.impact)
      [] name = "personalVision.oneYearGoal" ->
            MinLength(v.personalVision.oneYearGoal, 1)
      [] name = "personalVision.visionSatisfaction" ->
            ScoreValid(v.personalVision.visionSatisfaction)
      [] name = "readinessAssessment.efficacyBeliefs" ->
            MinLength(v.readinessAssessment.efficacyBeliefs, 1)
      [] name = "readinessAssessment.motivations" ->
            MinLength(v.readinessAssessment.motivations, 1)
      [] name = "readinessAssessment.challenges" ->
            MinLength(v.readinessAssessment.challenges, 1)
      [] name = "readinessAssessment.readinessScore" ->
            ScoreValid(v.readinessAssessment.readinessScore)
      [] name = "readinessAssessment.barriers" -> TRUE
      [] name = "readinessAssessment.supportSystem" -> TRUE
      [] name = "readinessAssessment.psychologicalNarrative" ->
            MinLength(v.readinessAssessment.psychologicalNarrative, 1)

\* form.trigger(names): true iff none of the named fields has an error
Trigger(names, v) == \A name \in names : PsychFieldValid(name, v)

\* what the user can enter in a control of the form
PsychFieldInputs(name) ==
    CASE name = "emotionalDrivers.current" -> {<<>>, <<"Anxious">>}
      [] name = "emotionalDrivers.desired" -> {<<>>, <<"Confident">>}
      [] name = "personalVision.oneYearGoal" -> {"", "run 10k"}
      [] name = "readinessAssessment.efficacyBeliefs" -> {"", "I can do it"}
      [] name = "readinessAssessment.motivations" -> {"", "health"}
      [] name = "readinessAssessment.challenges" -> {"", "time"}
      [] name = "readinessAssessment.barriers" ->
            {<<>>, <<"time management">>}
      [] name = "readinessAssessment.psychologicalNarrative" ->
            {"", "ready to start"}
      [] OTHER -> {}

\* field.onChange(value)
SetField(v, name, value) ==
    CASE name = "emotionalDrivers.current" ->
            [v EXCEPT !.emotionalDrivers.current = value]
      [] name = "emotionalDrivers.desired" ->
            [v EXCEPT !.emotionalDrivers.desired = value]
      [] name = "personalVision.oneYearGoal" ->
            [v EXCEPT !.personalVision.oneYearGoal = value]
      [] name = "readinessAssessment.efficacyBeliefs" ->
            [v EXCEPT !.readinessAssessment.efficacyBeliefs = value]
      [] name = "readinessAssessment.motivations" ->
            [v EXCEPT !.readinessAssessment.motivations = value]
      [] name = "readinessAssessment.challenges" ->
            [v EXCEPT !.readinessAssessment.challenges = value]
      [] name = "readinessAssessment.barriers" ->
            [v EXCEPT !.readinessAssessment.barriers = value]
      [] name = "readinessAssessment.psychologicalNarrative" ->
            [v EXCEPT !.readinessAssessment.psychologicalNarrative = value]

\* the page renders <PsychologicalAssessment>
PsychMounted ==
    user = Null /\ showAssessment /\ assessmentStep = "psychological"

\* the user changes a control of the step on screen
PsychEdit(name, value) ==
    /\ PsychMounted
    /\ name \in PsychStepFields(pStep)
    /\ value \in PsychFieldInputs(name)
    /\ pValues' = SetField(pValues, name, value)
    /\ UNCHANGED <<nonFormVars, fStep, fValues, fErrors, pStep,
                   isSubmitting>>

\* handleSubmit without its test of isSubmitting
PsychSubmitIgnoringIsSubmitting ==
    /\ PsychMounted
    /\ IF ~Trigger(PsychStepFields(pStep), pValues)
       THEN /\ Len(toasts) < MaxInvalidSubmits
            /\ toasts' = Append(toasts,
                  [title |-> "Please check your inputs",
                   description |-> "Some required fields are missing or invalid."])
            /\ UNCHANGED <<pageVars, user, checks, submits, runVars,
                           lastCheck, openedBy, tin, tout, formVars>>
       ELSE IF pStep < 3
       THEN /\ pStep' = pStep + 1
            /\ UNCHANGED <<nonFormVars, fStep, fValues, fErrors, pValues,
                           isSubmitting>>
       ELSE HandlePsychologicalComplete(pValues)

\* handleSubmit: it returns at once while isSubmitting is true.  Otherwise
\* it sets isSubmitting, validates the step, advances or calls onComplete,
\* and resets isSubmitting in its finally.  Validation settles before any
\* other event is handled, so the handler is one step and leaves
\* isSubmitting false; onComplete is awaited only while the page does not
\* render the form.
PsychSubmit ==
    /\ PsychMounted
    /\ IF isSubmitting
       THEN UNCHANGED vars
       ELSE IF ~Trigger(PsychStepFields(pStep), pValues)
       THEN /\ Len(toasts) < MaxInvalidSubmits
            /\ toasts' = Append(toasts,
                  [title |-> "Please check your inputs",
                   description |-> "Some required fields are missing or invalid."])
            /\ UNCHANGED <<pageVars, user, checks, submits, runVars,
                           lastCheck, openedBy, tin, tout, formVars>>
       ELSE IF pStep < 3
       THEN /\ pStep' = pStep + 1
            /\ UNCHANGED <<nonFormVars, fStep, fValues, fErrors, pValues,
                           isSubmitting>>
       ELSE HandlePsychologicalComplete(pValues)

\* handlePrevious
PsychPrevious ==
    /\ PsychMounted
    /\ pStep > 1
    /\ pStep' = pStep - 1
    /\ UNCHANGED <<nonFormVars, fStep, fValues, fErrors, pValues,
                   isSubmitting>>

(***************************************************************************)
(* The two forms in the page: the flow has been opened for a credential,   *)
(* the fitness form's handlers are applied at every step to every value of *)
(* FitnessFormValues, and the psychological form starts as mounted, its    *)
(* handlers applied with isSubmitting false and with isSubmitting true.    *)
(***************************************************************************)
FormsInit ==
    /\ showAssessment = TRUE
    /\ assessmentStep = "fitness"
    /\ initialRegData = Some([username |-> "alex", password |-> "pw-alex"])
    /\ fitnessData = Null
    /\ results = Null
    /\ isAnalyzing = FALSE
    /\ user = Null
    /\ checks = {}
    /\ submits = 1
    /\ pc = "idle"
    /\ run = NoRun
    /\ calls = <<>>
    /\ outcome = "none"
    /\ toasts = <<>>
    /\ failureReports = {}
    /\ lastCheck = Some([id |-> 1, data |-> Val(initialRegData),
                         answer |-> "available"])
    /\ openedBy = initialRegData
    /\ tin = Null
    /\ tout = Null
    /\ fStep \in 1..3
    /\ fValues \in FitnessFormValues
    /\ fErrors = {}
    /\ pStep = 1
    /\ pValues = PsychDefaultValues
    /\ isSubmitting \in BOOLEAN

FormsNext ==
    \/ FitnessSubmit
    \/ FitnessPrevious
    \/ \E control \in FitnessControls(fStep) :
          FitnessEdit(control[1], control[2])
    \/ \E name \in PsychStepFields(pStep) :
          \E value \in PsychFieldInputs(name) : PsychEdit(name, value)
    \/ PsychSubmit
    \/ PsychPrevious
    \/ \E analysis \in AnalysisResponses : AnalyzeSucceeds(analysis)
    \/ \E plan \in WorkoutPlanResponses : WorkoutSucceeds(plan)
    \/ RegisterSucceeds
    \/ \E error \in Thrown : StageFails(error)
    \/ ContinueToDashboard

SpecForms == FormsInit /\ [][FormsNext]_vars

(***************************************************************************)
(* useAuth: logout and checkSession.  pc is the await the hook is          *)
(* suspended at, tout the call completed last: which call, how its fetch   *)
(* settled, what the call returned and the user stored before it.          *)
(***************************************************************************)
\* the records GET /api/user answers with
SessionUsers == {StoredUser(c) : c \in Credentials}

JsonResponse(ok, content) ==
    [kind |-> "response", ok |-> ok, isJson |-> TRUE,
     body |-> [wellFormed |-> TRUE, content |-> content]]

\* how the fetch of POST /api/logout settles
LogoutOutcomes ==
    {[kind |-> "rejected", error |-> NetworkError],
     JsonResponse(TRUE, ""),
     JsonResponse(FALSE, "Logout failed"),
     [kind |-> "response", ok |-> TRUE, isJson |-> TRUE,
      body |-> [wellFormed |-> FALSE, content |-> ""]]}

\* how the fetch of GET /api/user settles
SessionOutcomes ==
    {[kind |-> "rejected", error |-> NetworkError],
     JsonResponse(FALSE, "Not authenticated"),
     [kind |-> "response", ok |-> TRUE, isJson |-> TRUE,
      body |-> [wellFormed |-> FALSE, content |-> ""]]}
    \cup {JsonResponse(TRUE, u) : u \in SessionUsers}

SessionInit ==
    /\ showAssessment = FALSE
    /\ assessmentStep = "fitness"
    /\ initialRegData = Null
    /\ fitnessData = Null
    /\ results = Null
    /\ isAnalyzing = FALSE
    /\ user \in {Null} \cup {Some(u) : u \in SessionUsers}
    /\ checks = {}
    /\ submits = 0
    /\ pc = "idle"
    /\ run = NoRun
    /\ calls = <<>>
    /\ outcome = "none"
    /\ toasts = <<>>
    /\ failureReports = {}
    /\ lastCheck = Null
    /\ openedBy = Null
    /\ tin = Null
    /\ tout = Null
    /\ FormsAtMount

sessionUnchanged ==
    <<pageVars, checks, submits, run, calls, outcome, failureReports,
      lastCheck, openedBy, tin, formVars>>

\* a call whose request fails emits the toast of ApiService.request
SessionSettles(settled) ==
    /\ request(settled).result.kind = "thrown" =>
          Len(toasts) < MaxSessionFailures
    /\ toasts' = toasts \o request(settled).toasts

\* logout is called: await api.logout()
logout ==
    /\ pc = "idle"
    /\ pc' = "logout"
    /\ UNCHANGED <<user, toasts, tout, sessionUnchanged>>

\* logout whose catch block leaves the user in the store
LogoutSettlesKeepingUser(settled) ==
    /\ pc = "logout"
    /\ SessionSettles(settled)
    /\ user' = IF request(settled).result.kind = "returned"
               THEN Null ELSE user
    /\ tout' = Some([call |-> "logout", settled |-> settled,
                      returned |-> Undefined, userBefore |-> user])
    /\ pc' = "idle"
    /\ UNCHANGED sessionUnchanged

\* api.logout() settled: the try block and the catch block both execute
\* setUser(null); the call returns undefined
LogoutSettles(settled) ==
    /\ pc = "logout"
    /\ SessionSettles(settled)
    /\ user' = Null
    /\ tout' = Some([call |-> "logout", settled |-> settled,
                      returned |-> Undefined, userBefore |-> user])
    /\ pc' = "idle"
    /\ UNCHANGED sessionUnchanged

\* checkSession is called: await api.getCurrentUser()
checkSession ==
    /\ pc = "idle"
    /\ pc' = "checkSession"
    /\ UNCHANGED <<user, toasts, tout, sessionUnchanged>>

\* api.getCurrentUser() settled: setUser(userData) and true, or in the
\* catch block setUser(null) and false
CheckSessionSettles(settled) ==
    /\ pc = "checkSession"
    /\ SessionSettles(settled)
    /\ LET result == request(settled).result IN
         /\ user' = IF result.kind = "returned"
                    THEN Some(result.value) ELSE Null
         /\ tout' = Some([call |-> "checkSession", settled |-> settled,
                           returned |-> (result.kind = "returned"),
                           userBefore |-> user])
    /\ pc' = "idle"
    /\ UNCHANGED sessionUnchanged

SessionNext ==
    \/ logout
    \/ \E settled \in LogoutOutcomes : LogoutSettles(settled)
    \/ checkSession
    \/ \E settled \in SessionOutcomes : CheckSessionSettles(settled)

SpecSession == SessionInit /\ [][SessionNext]_vars

(***************************************************************************)
(* Properties                                                              *)
(***************************************************************************)
RunFailed == outcome = "running" /\ outcome' = "failed"

\* the stage whose request failed in the run that ended last
FailedStage == calls[Len(calls)].stage

\* C1: when any of the three requests of a run fails, the handler leaves
\* the page as it was before the registration form was submitted:
\* showAssessment = false, initialRegData = null, fitnessData = null,
\* assessmentStep = "fitness", isAnalyzing = false.
C1_FailureRollsBack ==
    [][RunFailed =>
         /\ showAssessment' = FALSE
         /\ initialRegData' = Null
         /\ fitnessData' = Null
         /\ assessmentStep' = "fitness"
         /\ isAnalyzing' = FALSE]_vars

\* a run whose generateWorkout request failed has just been rolled back
C1_Witness ==
    /\ outcome = "failed"
    /\ FailedStage = "workout"
    /\ calls[1].outcome = "ok"
    /\ showAssessment = FALSE
    /\ fitnessData = Null
    /\ initialRegData = Null

\* C2: after a run in which analysis and synthesis succeeded and
\* registration failed, the page holds no results.
C2_FailedRunHoldsNoResults ==
    (outcome = "failed" /\ FailedStage = "register") => results = Null

\* C3: the requests of a run are sent in the order analyzeAssessment,
\* generateWorkout, register, each only after the one before it succeeded;
\* after a failed request no further request is sent.
C3_StrictOrder ==
    /\ Len(calls) <= Len(Stages)
    /\ \A i \in 1..Len(calls) : calls[i].stage = Stages[i]
    /\ \A i \in 1..(Len(calls) - 1) : calls[i].outcome = "ok"

\* the register request is pending, after two successful requests
C3_Witness ==
    /\ pc = "register"
    /\ Len(calls) = 3
    /\ calls[3] = [stage |-> "register", outcome |-> "pending"]

\* C4: the results view is shown only when the register request of the run
\* has succeeded.
C4_ResultsShownOnlyWhenComplete ==
    (showAssessment /\ assessmentStep = "results" /\ results # Null)
        => outcome = "complete"

\* a step in which a checkUsername request is resolved
CheckResolved == checks' # checks /\ submits' = submits

\* C5: when the availability check answers available = false, the handler
\* emits the "Username already exists" toast and changes no page state
\* (showAssessment, initialRegData, assessmentStep, fitnessData, results and
\* isAnalyzing keep their values), and no request of the run is sent.
C5_UnavailableChangesNothing ==
    [][(CheckResolved /\ Val(lastCheck').answer = "taken") =>
         /\ toasts' = Append(toasts, [title |-> "Registration Error",
                                      description |-> "Username already exists"])
         /\ UNCHANGED pageVars
         /\ UNCHANGED <<pc, calls, run, user>>]_vars

\* an unavailable answer has been handled on the page before any flow
C5_Witness ==
    /\ lastCheck # Null
    /\ Val(lastCheck).answer = "taken"
    /\ toasts # <<>>
    /\ toasts[Len(toasts)].title = "Registration Error"
    /\ showAssessment = FALSE
    /\ initialRegData = Null
    /\ assessmentStep = "fitness"
    /\ pc = "idle"

\* C6: the flow is entered (showAssessment = true at step "fitness" with
\* initialRegData the submitted credential) if and only if the availability
\* check of that credential answered available = true; a failed check
\* leaves the page state unchanged.
C6_EnteredIffAvailable ==
    [][/\ (CheckResolved /\ Val(lastCheck').answer = "available") =>
             /\ showAssessment' = TRUE
             /\ assessmentStep' = "fitness"
             /\ initialRegData' = Some(Val(lastCheck').data)
       /\ (~showAssessment /\ showAssessment') =>
             (CheckResolved /\ Val(lastCheck').answer = "available")
       /\ (CheckResolved /\ Val(lastCheck').answer = "failed") =>
             UNCHANGED pageVars]_vars

\* the value of the leading run of decimal digits of s, 0 when there is none
RECURSIVE LeadingDigits(_)
LeadingDigits(s) ==
    IF s = <<>> \/ Head(s) \notin Digits THEN <<>>
    ELSE <<Head(s)>> \o LeadingDigits(Tail(s))

NumericPrefix(s) == DecimalValue(LeadingDigits(s), 0)

\* C7: the record's timeCommitment is the numeric prefix of the bucket
\* token ("3-4_hours" gives 3, "7+_hours" gives 7), 0 without leading digits.
C7_TimeCommitmentIsNumericPrefix ==
    tout # Null =>
        Val(tout).timeCommitment =
            Num(NumericPrefix(Val(tin).fitness.lifestyle.timeCommitment))

\* C8: stressLevel and sleepQuality map low/moderate/high to 1/2/3 and
\* poor/fair/good/excellent to 1/2/3/4, and every other token to 0.
C8_LevelsDefaultToZero ==
    tout # Null =>
        LET stress == Val(tin).fitness.lifestyle.stressLevel
            sleep == Val(tin).fitness.lifestyle.sleepQuality
        IN /\ Val(tout).stressLevel =
                  Num(CASE stress = "low" -> 1 [] stress = "moderate" -> 2
                        [] stress = "high" -> 3 [] OTHER -> 0)
           /\ Val(tout).sleepQuality =
                  Num(CASE sleep = "poor" -> 1 [] sleep = "fair" -> 2
                        [] sleep = "good" -> 3 [] sleep = "excellent" -> 4
                        [] OTHER -> 0)

\* C9: with "alex" available, the FitnessInput of the scenario, readiness
\* score 7, barriers ["time management"] and an analysis returning 72, the
\* record passed to register has stressLevel 2, sleepQuality 3,
\* timeCommitment 3, confidenceLevel 72 and obstacles "time management".
C9_EndToEndRecord ==
    (/\ pc = "register"
     /\ Val(run.initialRegData).username = "alex"
     /\ run.fitnessData = Some(FitnessAlex)
     /\ run.assessmentData = Some(PsychAlex)
     /\ run.analysis = Some(AnalysisOf(72)))
    => LET record == Val(run.completeUserData)
       IN /\ record.stressLevel = Num(2)
          /\ record.sleepQuality = Num(3)
          /\ record.timeCommitment = Num(3)
          /\ record.confidenceLevel = Num(72)
          /\ record.obstacles = "time management"

C11_OneToastPerFailure ==
    [][RunFailed => Len(toasts') = Len(toasts) + 1]_vars

\* C12: within a run each of analyzeAssessment, generateWorkout and
\* register is sent at most once, and a failed request is the last request
\* of its run: the run has ended and nothing is pending.
C12_NoRetry ==
    /\ \A i, j \in 1..Len(calls) : calls[i].stage = calls[j].stage => i = j
    /\ \A i \in 1..Len(calls) :
          calls[i].outcome = "failed" => (i = Len(calls) /\ pc = "idle")

\* a run ended by the failure of its only request, analyzeAssessment
C12_Witness ==
    /\ outcome = "failed"
    /\ pc = "idle"
    /\ calls = <<[stage |-> "analyze", outcome |-> "failed"]>>

\* C13: after registration has succeeded the page holds neither the
\* FitnessInput nor the credential.
C13_DiscardedOnCompletion ==
    outcome = "complete" => (fitnessData = Null /\ initialRegData = Null)

\* requests of the onboarding flow awaiting their response
Outstanding == Cardinality(checks) + (IF pc = "idle" THEN 0 ELSE 1)

\* C16: at any time at most one request of the onboarding flow (availability
\* check, analysis, synthesis, registration) is awaiting its response: no
\* second availability check and no second chain begins while one is.
C16_AtMostOneOutstanding == Outstanding <= 1

\* the user has left the results view while the register request of the
\* run is still awaited
Abandoned == pc = "register" /\ ~showAssessment /\ results = Null

\* C17: the response to a request of a run the user has abandoned (by
\* "Continue to Dashboard", which sets showAssessment = false and
\* results = null) changes no page state and emits no notification.
C17_AbandonedResponseIgnored ==
    [][(Abandoned /\ pc' = "idle") =>
         /\ UNCHANGED pageVars
         /\ toasts' = toasts]_vars

\* C18: when the register request is rejected (the identifier was taken
\* after the availability check) the stored user stays null and the run
\* ends failed with the page in its pre-pipeline state; the user becomes
\* non-null only when a register request has succeeded.
C18_RejectedRegistrationRollsBack ==
    [][/\ (pc = "register" /\ outcome' = "failed") =>
             /\ user' = Null
             /\ showAssessment' = FALSE
             /\ assessmentStep' = "fitness"
             /\ initialRegData' = Null
             /\ fitnessData' = Null
             /\ results' = Null
             /\ isAnalyzing' = FALSE
       /\ (user = Null /\ user' # Null) =>
             (pc = "register" /\ outcome' = "complete")]_vars

\* C20: the record sent to register carries the username and password of
\* the submission whose availability check answered available and opened
\* the flow of this run, whatever the order of submissions and responses.
C20_RecordCarriesOpeningCredential ==
    [][(pc = "workout" /\ pc' = "register") =>
         /\ openedBy # Null
         /\ Val(run'.completeUserData).username = Val(openedBy).username
         /\ Val(run'.completeUserData).password = Val(openedBy).password]_vars

\* C19: analyzeAssessment is called only while the page holds both the
\* credential stored by handleInitialRegister and the FitnessInput stored
\* by handleFitnessComplete; with either missing, handlePsychologicalComplete
\* sends no request and changes no state.
C19_AnalysisNeedsBothInputs ==
    [][/\ (pc = "idle" /\ pc' = "analyze") =>
             /\ initialRegData # Null /\ fitnessData # Null
             /\ run'.initialRegData = initialRegData
             /\ run'.fitnessData = fitnessData
       /\ (assessmentStep = "psychological"
              /\ (initialRegData = Null \/ fitnessData = Null)) =>
             UNCHANGED <<pageVars, runVars, toasts, user, checks>>]_vars

C19_Witness ==
    /\ pc = "analyze"
    /\ calls = <<Send("analyze")>>
    /\ run.initialRegData # Null
    /\ run.fitnessData # Null

\* no pipeline state of the page changes and no request is sent
PipelineUntouched ==
    /\ UNCHANGED <<initialRegData, fitnessData, assessmentStep, showAssessment>>
    /\ UNCHANGED <<pc, calls, checks>>

\* C14: a submit of either form that fails validation leaves the form's
\* step unchanged, does not call onComplete, sends no request and changes
\* none of initialRegData, fitnessData, assessmentStep, showAssessment.
C14_ValidationErrorChangesNothing ==
    [][/\ (FitnessSubmit /\ FitnessSchemaErrors(fValues) # {}) =>
             (fStep' = fStep /\ PipelineUntouched)
       /\ (PsychSubmit /\ ~Trigger(PsychStepFields(pStep), pValues)) =>
             (pStep' = pStep /\ PipelineUntouched)]_vars

C14_Witness ==
    /\ assessmentStep = "psychological"
    /\ pStep = 2
    /\ ~Trigger(PsychStepFields(pStep), pValues)
    /\ toasts # <<>>
    /\ toasts[Len(toasts)].title = "Please check your inputs"
    /\ calls = <<>>

C22_AnalyzeRequestShape ==
    run.analyzeRequest # Null =>
        LET sent == Val(run.analyzeRequest)
            readiness == Val(run.assessmentData).readinessAssessment
            fitness == Val(run.fitnessData)
        IN /\ DOMAIN sent =
                 {"narrative", "efficacyBeliefs", "motivations", "challenges",
                  "readinessScore", "userData"}
           /\ DOMAIN sent.userData =
                 {"age", "experienceLevel", "currentActivityLevel",
                  "sleepQuality", "stressLevel", "workoutPreferences",
                  "timeCommitment"}
           /\ sent.narrative = readiness.psychologicalNarrative
           /\ sent.efficacyBeliefs = readiness.efficacyBeliefs
           /\ sent.motivations = readiness.motivations
           /\ sent.challenges = readiness.challenges
           /\ sent.readinessScore = readiness.readinessScore
           /\ sent.userData.age = fitness.basicInfo.age
           /\ sent.userData.experienceLevel =
                 fitness.fitnessProfile.experienceLevel
           /\ sent.userData.currentActivityLevel =
                 fitness.fitnessProfile.currentActivityLevel
           /\ sent.userData.sleepQuality = fitness.lifestyle.sleepQuality
           /\ sent.userData.stressLevel = fitness.lifestyle.stressLevel
           /\ sent.userData.workoutPreferences =
                 fitness.fitnessProfile.workoutPreferences
           /\ sent.userData.timeCommitment =
                 fitness.lifestyle.timeCommitment

\* the text contains the pattern
Contains(text, pattern) ==
    \E i \in 1..(Len(text) - Len(pattern) + 1) :
        SubSeq(text, i, i + Len(pattern) - 1) = pattern

\* C23: the record's confidenceLevel is the readiness score the analysis
\* service returned and not the 1..10 score the user entered; the user's
\* score is the one sent in the analyze sent and the one embedded in
\* the encoded readinessAssessment, for every pair of the two scores.
C23_ScoresNotConflated ==
    run.completeUserData # Null =>
        LET record == Val(run.completeUserData)
            sent == Val(run.analyzeRequest)
            userScore ==
                Val(run.assessmentData).readinessAssessment.readinessScore
            serviceScore ==
                Val(run.analysis).motivationAnalysis.readinessScore
        IN /\ record.confidenceLevel = Num(serviceScore)
           /\ userScore # serviceScore =>
                 record.confidenceLevel # Num(userScore)
           /\ sent.readinessScore = userScore
           /\ Contains(record.readinessAssessment,
                       "\"readinessScore\":" \o ToString(userScore) \o ",")
           /\ userScore # serviceScore =>
                 ~Contains(record.readinessAssessment,
                           "\"readinessScore\":" \o ToString(serviceScore)
                               \o ",")

C23_Witness ==
    /\ pc = "register"
    /\ run.completeUserData # Null
    /\ Val(run.assessmentData).readinessAssessment.readinessScore = 3
    /\ Val(run.analysis).motivationAnalysis.readinessScore = 7
    /\ Val(run.completeUserData).confidenceLevel = Num(7)

\* C24: encoding workoutPreferences and decoding the encoded string yields
\* the original list, same elements in the same order, for every non-empty
\* list, also with entries that look alike and entries holding commas.
C24_RoundTrip ==
    (tout # Null /\ Val(tout).decoded # Null) =>
        Val(tout).decoded = Some(Some(Val(tin)))

C24_Witness ==
    /\ tin = Some(<<"HIIT,Cardio", "Yoga ">>)
    /\ tout # Null
    /\ Val(tout).encoded = "[\"HIIT,Cardio\",\"Yoga \"]"
    /\ Val(tout).decoded = Some(Some(<<"HIIT,Cardio", "Yoga ">>))

\* error instanceof TypeError
IsTypeError(e) == e.t = "Error" /\ e.name = "TypeError"

\* C25: every call of the API client ends with a result or with a failure
\* its caller can classify: a call whose service was not reached throws a
\* TypeError, a call whose response is not a success throws a value that
\* is no TypeError, and no failure becomes a returned value.
C25_FailuresAreClassifiable ==
    tout # Null =>
        LET settled == Val(tin).settled
            result == Val(tout)
        IN /\ result.kind \in {"returned", "thrown"}
           /\ settled.kind = "rejected" =>
                 (result.kind = "thrown" /\ IsTypeError(result.value))
           /\ (settled.kind = "response" /\ ~settled.ok) =>
                 (result.kind = "thrown" /\ ~IsTypeError(result.value))
           /\ result.kind = "returned" =>
                 (settled.kind = "response" /\ settled.ok)

C25_Witness ==
    /\ tin # Null
    /\ Val(tin).endpoint = "register"
    /\ Val(tin).settled.kind = "response"
    /\ ~Val(tin).settled.ok
    /\ tout = Some(Threw(RejectedWithError))
    /\ toasts = <<[title |-> "Error", description |-> "Username already exists"]>>

\* every control rendered at the steps up to this one holds a valid entry
FilledThrough(step) ==
    \A s \in 1..step : \A control \in FitnessControls(s) :
        fValues[control[1]][control[2]] =
            FitnessValidEntries[control[1]][control[2]]

\* C26: the fitness form can be completed through its controls: a submit
\* made when every control of the step on screen and of the steps before
\* it holds a valid value moves the form to the next step, and at step 3
\* hands the data to the page, which shows the psychological form.
C26_FilledStepAdvances ==
    [][(FitnessSubmit /\ FilledThrough(fStep)) =>
          IF fStep < 3 THEN fStep' = fStep + 1
          ELSE assessmentStep' = "psychological"]_vars

\* C27: the psychological form hands its data to the page only when the
\* fields of all three steps satisfy the schema: both emotion lists and
\* every required text non-empty and the three scores in 1..10, although
\* a submit validates the fields of the step on screen only.
C27_CompleteOnlyWithAllStepsValid ==
    [][(assessmentStep = "psychological" /\ assessmentStep' = "analyzing") =>
         /\ run'.assessmentData = Some(pValues)
         /\ LET d == pValues IN
              /\ Len(d.emotionalDrivers.current) > 0
              /\ Len(d.emotionalDrivers.desired) > 0
              /\ d.emotionalDrivers.impact \in 1..10
              /\ Len(d.personalVision.oneYearGoal) > 0
              /\ d.personalVision.visionSatisfaction \in 1..10
              /\ Len(d.readinessAssessment.efficacyBeliefs) > 0
              /\ Len(d.readinessAssessment.motivations) > 0
              /\ Len(d.readinessAssessment.challenges) > 0
              /\ d.readinessAssessment.readinessScore \in 1..10
              /\ Len(d.readinessAssessment.psychologicalNarrative) > 0]_vars

\* the form was completed after the user went back from step 3 and
\* forward again: a rejected submit is on record and the run has started
C27_Witness ==
    /\ assessmentStep = "analyzing"
    /\ run.assessmentData = Some(pValues)
    /\ pStep = 3
    /\ Len(toasts) > 0
    /\ toasts[1].title = "Please check your inputs"
    /\ pValues.readinessAssessment.barriers = <<"time management">>

\* the page renders the results view
ResultsViewRendered ==
    showAssessment /\ assessmentStep = "results" /\ results # Null

\* the results view appears only in the step that stores the results of
\* the run in progress, built from its own analysis and workout plan, and
\* the results do not change while the view stays
ResultsAreOfCurrentRun ==
    /\ [][(~ResultsViewRendered /\ ResultsViewRendered') =>
             (/\ run'.analysis # Null
              /\ run'.workoutPlan # Null
              /\ results' = Some(ComprehensiveResults(
                                     Val(run'.analysis),
                                     Val(run'.workoutPlan))))]_vars
    /\ [][(ResultsViewRendered /\ ResultsViewRendered') =>
             results' = results]_vars

\* C28: whenever the assessment view is shown, one of its four step views
\* is rendered: at step "results" the results are present.
C28_ResultsViewHasResults ==
    (showAssessment /\ assessmentStep = "results") => results # Null

\* C29: in both forms the step stays within 1..3 whatever the sequence of
\* Next, Previous and submit: Previous does not go below 1, a submit at
\* step 3 does not increment the step, and a submit of the psychological
\* form arriving while isSubmitting is true changes nothing.
C29_StepsStayInRange ==
    /\ [](fStep \in 1..3 /\ pStep \in 1..3)
    /\ [][(fStep = 3 => fStep' <= 3) /\ (pStep = 3 => pStep' <= 3)]_vars
    /\ [][(fStep = 1 => fStep' >= 1) /\ (pStep = 1 => pStep' >= 1)]_vars
    /\ [][(PsychMounted /\ isSubmitting /\ ~PsychPrevious
             /\ ~(\E name \in PsychStepFields(pStep) :
                    \E value \in PsychFieldInputs(name) :
                        PsychEdit(name, value)))
           => UNCHANGED vars]_vars

\* the psychological form is on screen with valid values at step 1 while
\* isSubmitting is true: a submit would advance the step if it were handled
C29_Witness ==
    /\ PsychMounted
    /\ isSubmitting
    /\ pStep = 1
    /\ fStep = 3
    /\ Trigger(PsychStepFields(1), pValues)

\* the call got an ok response whose body could be read
FetchSucceeded(settled) ==
    /\ settled.kind = "response"
    /\ settled.ok
    /\ settled.body.wellFormed

\* C30: when logout has ended the store's user is null, whether its
\* request succeeded or failed; when checkSession has ended after a
\* successful request the store holds the record the request returned and
\* the call returned true, and after a failed request the store's user is
\* null and the call returned false.
C30_SessionCallsSetUser ==
    (tout # Null /\ pc = "idle") =>
        LET last == Val(tout) IN
        /\ last.call = "logout" => user = Null
        /\ (last.call = "checkSession" /\ FetchSucceeded(last.settled)) =>
              /\ user = Some(last.settled.body.content)
              /\ last.returned = TRUE
        /\ (last.call = "checkSession" /\ ~FetchSucceeded(last.settled)) =>
              /\ user = Null
              /\ last.returned = FALSE

\* a logout whose request could not be sent ended with the user removed
C30_Witness ==
    /\ pc = "idle"
    /\ tout # Null
    /\ Val(tout).call = "logout"
    /\ Val(tout).settled.kind = "rejected"
    /\ Val(tout).userBefore # Null
    /\ user = Null
    /\ toasts # <<>>
    /\ toasts[Len(toasts)].title = "Connection Error"

=============================================================================
